---- MODULE Spec2Model ----
(***************************************************************************)
(* Model of the voice-cloning pipeline of genAIcapstoneproject.ipynb:      *)
(* clone_voice and its helpers detect_text_emotion, extract_emotion and    *)
(* evaluate_similarity.                                                    *)
(*                                                                         *)
(* The external models (text-emotion classifier, audio-emotion classifier, *)
(* speaker encoder + cosine similarity, TTS cloning model, audio decoder)  *)
(* are black boxes: each call nondeterministically returns one of its      *)
(* possible values or raises.  The temporary directory is shared by all    *)
(* callers (tempfile.gettempdir()), so it is one variable, fs.             *)
(*                                                                         *)
(* Conventions:                                                            *)
(*   - a float similarity is an integer count of 1/CosScale units;         *)
(*   - the marks U+2714 and U+2716 of the verdict string are written       *)
(*     CheckMark and CrossMark (the module text is ASCII);                 *)
(*   - a missing audio path (None or "") is the empty string NoPath.       *)
(***************************************************************************)
EXTENDS Integers, Sequences, FiniteSets, TLC

(***************************************************************************)
(* Bounds and constants                                                    *)
(***************************************************************************)
\* number of distinct request texts
NumTexts == 2
\* resolution of a similarity value: 1.0 is CosScale units
CosScale == 10
\* clone_voice takes audio_path1, audio_path2, audio_path3
MaxRefs == 3

\* the callers the serving layer may run at the same time
Callers == {1, 2}

Texts == 1..NumTexts
NoPath == ""

\* the closed emotion taxonomy: the non-"" keys of emotion_options
Taxonomy == {"happy", "sad", "angry", "neutral"}

\* values of target_emotion a caller may pass
TargetEmotions == {"", "happy", "neutral", "Angry", "SAD", "excited"}

\* labels of SamLowe/roberta-base-go_emotions (a sample), raw
TextRawLabels == {"joy", "sadness", "anger", "neutral", "fear"}

\* labels of superb/wav2vec2-base-superb-er (a sample), raw
AudioRawLabels == {"hap", "sad"}

\* values cosine_similarity may return, in 1/CosScale units: -1.0 .. 1.0
CosValues == {-CosScale, -3, 6, CosScale}

CheckMark == "[U+2714]"
CrossMark == "[U+2716]"

(***************************************************************************)
(* Pure helpers                                                            *)
(***************************************************************************)
\* mutant: the .lower() is forgotten
LowerIdentity(s) == s

\* str.lower() on the strings of the model
Lower(s) ==
    CASE s = "Angry" -> "angry"
      [] s = "SAD" -> "sad"
      [] OTHER -> s

ToStr(n) == ToString(n)

\* os.path.join(tempfile.gettempdir(), f"processed_{i}.wav")
ProcessedPath(k) == "processed_" \o ToStr(k) \o ".wav"
\* os.path.join(tempfile.gettempdir(), "output.wav")
output_path == "output.wav"
\* os.path.join(tempfile.gettempdir(), "error.wav")
error_path == "error.wav"

TempFiles == {ProcessedPath(k) : k \in 0..(MaxRefs - 1)} \cup {output_path, error_path}

\* the uploaded file the UI hands to caller i in slot k
UploadPath(i, k) == "upload_" \o ToStr(i) \o "_" \o ToStr(k)

\* [p for p in [audio_path1, audio_path2, audio_path3] if p]
Supplied(paths) == SelectSeq(paths, LAMBDA p : p # NoPath)

\* mutant: emotion_map.get(label, label), an unknown label passes through
emotion_map_get_passthrough(label) ==
    CASE label = "joy" -> "happy"
      [] label = "sadness" -> "sad"
      [] label = "anger" -> "angry"
      [] OTHER -> label

\* emotion_map.get(label, "neutral") of detect_text_emotion
emotion_map_get(label) ==
    CASE label = "joy" -> "happy"
      [] label = "sadness" -> "sad"
      [] label = "anger" -> "angry"
      [] label = "neutral" -> "neutral"
      [] OTHER -> "neutral"

\* mutant: emotion_options.get(key, key), an unknown key passes through
emotion_options_get_passthrough(auto, key) ==
    CASE key = "" -> auto
      [] key \in Taxonomy -> key
      [] OTHER -> key

\* mutant: emotion_options.get(key, emotion_options[""]), an unknown key
\* falls back to the emotion detected on the reference
emotion_options_get_auto_fallback(auto, key) ==
    CASE key = "" -> auto
      [] key \in Taxonomy -> key
      [] OTHER -> auto

\* emotion_options.get(key, "neutral"); auto is the value stored under ""
emotion_options_get(auto, key) ==
    CASE key = "" -> auto
      [] key \in Taxonomy -> key
      [] OTHER -> "neutral"

\* mutant: the two branches of the conditional expression are swapped
FormatVerdictSwapped(final, cloned) ==
    IF cloned # final
    THEN final \o " (" \o CheckMark \o ")"
    ELSE final \o " (" \o CrossMark \o " Got " \o cloned \o ")"

\* the third element of the returned tuple
FormatVerdict(final, cloned) ==
    IF cloned = final
    THEN final \o " (" \o CheckMark \o ")"
    ELSE final \o " (" \o CrossMark \o " Got " \o cloned \o ")"

\* detect_text_emotion(text): the mapped label, or "neutral" on any exception
DetectTextEmotionResults ==
    {[label |-> emotion_map_get(Lower(l)), raw |-> l] : l \in TextRawLabels}
        \cup {[label |-> "neutral", raw |-> "raise"]}

\* extract_emotion(audio_path): the lowercased raw label, or "neutral" on any
\* exception (sf.read fails before the classifier is built: called = 0)
ExtractEmotionResults ==
    {[label |-> Lower(l), raw |-> l, called |-> 1] : l \in AudioRawLabels}
        \cup {[label |-> "neutral", raw |-> "raise", called |-> c] : c \in {0, 1}}

\* mutant: the except branch returns -1.0 as its failure value
EvaluateSimilarityResultsMinusOne ==
    {[score |-> c, st |-> "ok"] : c \in {-CosScale, -3, 6, CosScale}}
        \cup {[score |-> -CosScale, st |-> "raise"]}

\* evaluate_similarity(original_path, cloned_path): the raw cosine, or 0.0 on
\* any exception
EvaluateSimilarityResults ==
    {[score |-> c, st |-> "ok"] : c \in CosValues}
        \cup {[score |-> 0, st |-> "raise"]}

(***************************************************************************)
(* State                                                                   *)
(***************************************************************************)
VARIABLES
    pc,              \* position of each caller in clone_voice
    text,            \* argument text
    audio_paths,     \* arguments audio_path1..3
    target_emotion,  \* argument target_emotion
    ref_paths,       \* local ref_paths
    emotion_options, \* the value stored under "" in local emotion_options
    final_emotion,   \* local final_emotion
    cloned_emotion,  \* local cloned_emotion
    ret,             \* the returned tuple
    calls,           \* how often each model was invoked in the run
    outcome,         \* what each collaborator call of the run did
    reads,           \* the temp files the run read, with their writer
    fs               \* the temp directory: writer and origin of each file

vars == <<pc, text, audio_paths, target_emotion, ref_paths, emotion_options,
          final_emotion, cloned_emotion, ret, calls, outcome, reads, fs>>

locals == <<ref_paths, emotion_options, final_emotion, cloned_emotion>>
args == <<text, audio_paths, target_emotion>>

NoResult == [path |-> "", similarity |-> 0, verdict |-> ""]
NoCalls == [text |-> 0, audio |-> 0, encoder |-> 0, tts |-> 0]
NoOutcome == [decode |-> "-", precondition |-> "-", ref |-> "-", text |-> "-",
              tts |-> "-", out |-> "-", sim |-> "-"]
Absent == [owner |-> 0, src |-> ""]

\* every way of filling the three path slots of caller i
PathChoices(i) ==
    {<<IF b[1] THEN UploadPath(i, 1) ELSE NoPath,
       IF b[2] THEN UploadPath(i, 2) ELSE NoPath,
       IF b[3] THEN UploadPath(i, 3) ELSE NoPath>> : b \in [1..MaxRefs -> BOOLEAN]}

InitLocals ==
    /\ ref_paths = [i \in Callers |-> <<>>]
    /\ emotion_options = [i \in Callers |-> "unset"]
    /\ final_emotion = [i \in Callers |-> "unset"]
    /\ cloned_emotion = [i \in Callers |-> "unset"]
    /\ ret = [i \in Callers |-> NoResult]
    /\ calls = [i \in Callers |-> NoCalls]
    /\ outcome = [i \in Callers |-> NoOutcome]
    /\ reads = [i \in Callers |-> {}]
    /\ fs = [f \in TempFiles |-> Absent]

\* one call of clone_voice, by caller 1, with any arguments
Init ==
    /\ pc = [i \in Callers |-> IF i = 1 THEN "Received" ELSE "idle"]
    /\ text \in [Callers -> Texts]
    /\ \A i \in Callers : i # 1 => text[i] = 1
    /\ audio_paths \in [Callers -> UNION {PathChoices(i) : i \in Callers}]
    /\ audio_paths[1] \in PathChoices(1)
    /\ \A i \in Callers : i # 1 => audio_paths[i] = <<NoPath, NoPath, NoPath>>
    /\ target_emotion \in [Callers -> TargetEmotions]
    /\ \A i \in Callers : i # 1 => target_emotion[i] = ""
    /\ InitLocals

(***************************************************************************)
(* clone_voice, one action per step                                        *)
(***************************************************************************)
\* entry: ref_paths = []
Enter(i) ==
    /\ pc[i] = "Received"
    /\ pc' = [pc EXCEPT ![i] = "Normalizing"]
    /\ ref_paths' = [ref_paths EXCEPT ![i] = <<>>]
    /\ UNCHANGED <<args, emotion_options, final_emotion, cloned_emotion, ret,
                   calls, outcome, reads, fs>>

\* one iteration of the for loop: decode, convert, export, append
NormalizeRef(i) ==
    /\ pc[i] = "Normalizing"
    /\ Len(ref_paths[i]) < Len(Supplied(audio_paths[i]))
    /\ LET k == Len(ref_paths[i])
           path == Supplied(audio_paths[i])[k + 1]
           processed_path == ProcessedPath(k)
       IN \E decoded \in BOOLEAN :
            IF decoded
            THEN /\ fs' = [fs EXCEPT ![processed_path] = [owner |-> i, src |-> path]]
                 /\ ref_paths' = [ref_paths EXCEPT ![i] = Append(@, processed_path)]
                 /\ outcome' = [outcome EXCEPT ![i].decode = "ok"]
                 /\ pc' = pc
            ELSE /\ outcome' = [outcome EXCEPT ![i].decode = "raise"]
                 /\ pc' = [pc EXCEPT ![i] = "except"]
                 /\ UNCHANGED <<fs, ref_paths>>
    /\ UNCHANGED <<args, emotion_options, final_emotion, cloned_emotion, ret,
                   calls, reads>>

\* mutant: the check for an empty ref_paths is missing
CheckRefsMissing(i) ==
    /\ pc[i] = "Normalizing"
    /\ Len(ref_paths[i]) = Len(Supplied(audio_paths[i]))
    /\ pc' = [pc EXCEPT ![i] = "EmotionOptions"]
    /\ outcome' = [outcome EXCEPT ![i].precondition = "ok"]
    /\ UNCHANGED <<args, locals, ret, calls, reads, fs>>

\* end of the loop: if not ref_paths: raise ValueError
CheckRefs(i) ==
    /\ pc[i] = "Normalizing"
    /\ Len(ref_paths[i]) = Len(Supplied(audio_paths[i]))
    /\ IF ref_paths[i] = <<>>
       THEN /\ pc' = [pc EXCEPT ![i] = "except"]
            /\ outcome' = [outcome EXCEPT ![i].precondition = "raise"]
       ELSE /\ pc' = [pc EXCEPT ![i] = "EmotionOptions"]
            /\ outcome' = [outcome EXCEPT ![i].precondition = "ok"]
    /\ UNCHANGED <<args, locals, ret, calls, reads, fs>>

\* the read of temp file f by caller i in step
ReadOf(step, f) == [step |-> step, file |-> f, owner |-> fs[f].owner, src |-> fs[f].src]

\* mutant: the reference emotion is detected only in auto mode
BuildEmotionOptionsLazy(i) ==
    /\ pc[i] = "EmotionOptions"
    /\ IF ref_paths[i] = <<>>
       THEN /\ pc' = [pc EXCEPT ![i] = "except"]
            /\ UNCHANGED <<emotion_options, calls, outcome, reads>>
       ELSE IF target_emotion[i] # ""
       THEN /\ pc' = [pc EXCEPT ![i] = "Resolve"]
            /\ UNCHANGED <<emotion_options, calls, outcome, reads>>
       ELSE \E r \in ExtractEmotionResults :
            /\ emotion_options' = [emotion_options EXCEPT ![i] = r.label]
            /\ calls' = [calls EXCEPT ![i].audio = @ + r.called]
            /\ outcome' = [outcome EXCEPT ![i].ref = r.raw]
            /\ reads' = [reads EXCEPT ![i] = @ \cup {ReadOf("ref_emotion", ref_paths[i][1])}]
            /\ pc' = [pc EXCEPT ![i] = "Resolve"]
    /\ UNCHANGED <<args, ref_paths, final_emotion, cloned_emotion, ret, fs>>

\* emotion_options = {"": extract_emotion(ref_paths[0]), ...}
BuildEmotionOptions(i) ==
    /\ pc[i] = "EmotionOptions"
    /\ IF ref_paths[i] = <<>>
       THEN \* ref_paths[0] raises IndexError
            /\ pc' = [pc EXCEPT ![i] = "except"]
            /\ UNCHANGED <<emotion_options, calls, outcome, reads>>
       ELSE \E r \in ExtractEmotionResults :
            /\ emotion_options' = [emotion_options EXCEPT ![i] = r.label]
            /\ calls' = [calls EXCEPT ![i].audio = @ + r.called]
            /\ outcome' = [outcome EXCEPT ![i].ref = r.raw]
            /\ reads' = [reads EXCEPT ![i] = @ \cup {ReadOf("ref_emotion", ref_paths[i][1])}]
            /\ pc' = [pc EXCEPT ![i] = "Resolve"]
    /\ UNCHANGED <<args, ref_paths, final_emotion, cloned_emotion, ret, fs>>

\* mutant: detect_text_emotion(text) is called before the test of
\* target_emotion, in every run
ResolveEmotionClassifiesFirst(i) ==
    /\ pc[i] = "Resolve"
    /\ \E r \in DetectTextEmotionResults :
        /\ final_emotion' = [final_emotion EXCEPT ![i] =
               IF target_emotion[i] = "" THEN r.label
               ELSE emotion_options_get(emotion_options[i], Lower(target_emotion[i]))]
        /\ calls' = [calls EXCEPT ![i].text = @ + 1]
        /\ outcome' = [outcome EXCEPT ![i].text = r.raw]
    /\ pc' = [pc EXCEPT ![i] = "Synthesizing"]
    /\ UNCHANGED <<args, ref_paths, emotion_options, cloned_emotion, ret, reads, fs>>

\* if target_emotion == "": detect_text_emotion(text)
\* else: emotion_options.get(target_emotion.lower(), "neutral")
ResolveEmotion(i) ==
    /\ pc[i] = "Resolve"
    /\ IF target_emotion[i] = ""
       THEN \E r \in DetectTextEmotionResults :
            /\ final_emotion' = [final_emotion EXCEPT ![i] = r.label]
            /\ calls' = [calls EXCEPT ![i].text = @ + 1]
            /\ outcome' = [outcome EXCEPT ![i].text = r.raw]
       ELSE /\ final_emotion' = [final_emotion EXCEPT ![i] =
                emotion_options_get(emotion_options[i], Lower(target_emotion[i]))]
            /\ UNCHANGED <<calls, outcome>>
    /\ pc' = [pc EXCEPT ![i] = "Synthesizing"]
    /\ UNCHANGED <<args, ref_paths, emotion_options, cloned_emotion, ret, reads, fs>>

\* mutant: a failure of the cloning model is logged and the run goes on to
\* validate
SynthesizeContinues(i) ==
    /\ pc[i] = "Synthesizing"
    /\ calls' = [calls EXCEPT ![i].tts = @ + 1]
    /\ \E r \in {"ok", "raise"} :
        /\ outcome' = [outcome EXCEPT ![i].tts = r]
        /\ IF r = "raise"
           THEN UNCHANGED <<reads, fs>>
           ELSE /\ reads' = [reads EXCEPT ![i] =
                       @ \cup {ReadOf("tts", ref_paths[i][k]) : k \in 1..Len(ref_paths[i])}]
                /\ fs' = [fs EXCEPT ![output_path] = [owner |-> i, src |-> "tts"]]
        /\ pc' = [pc EXCEPT ![i] = "Validating"]
    /\ UNCHANGED <<args, locals, ret>>

\* tts = TTS(...); tts.tts_to_file(text, speaker_wav=ref_paths,
\* file_path=output_path, emotion=final_emotion): writes output.wav or raises,
\* possibly after writing part of it
Synthesize(i) ==
    /\ pc[i] = "Synthesizing"
    /\ calls' = [calls EXCEPT ![i].tts = @ + 1]
    /\ \E r \in {"ok", "raise", "raise_partial"} :
        /\ outcome' = [outcome EXCEPT ![i].tts = r]
        /\ IF r = "raise"
           THEN UNCHANGED <<reads, fs>>
           ELSE /\ reads' = [reads EXCEPT ![i] =
                       @ \cup {ReadOf("tts", ref_paths[i][k]) : k \in 1..Len(ref_paths[i])}]
                /\ fs' = [fs EXCEPT ![output_path] =
                       [owner |-> i, src |-> IF r = "ok" THEN "tts" ELSE "partial"]]
        /\ pc' = [pc EXCEPT ![i] = IF r = "ok" THEN "Validating" ELSE "except"]
    /\ UNCHANGED <<args, locals, ret>>

\* cloned_emotion = extract_emotion(output_path)
ValidateEmotion(i) ==
    /\ pc[i] = "Validating"
    /\ \E r \in ExtractEmotionResults :
        /\ cloned_emotion' = [cloned_emotion EXCEPT ![i] = r.label]
        /\ calls' = [calls EXCEPT ![i].audio = @ + r.called]
        /\ outcome' = [outcome EXCEPT ![i].out = r.raw]
    /\ reads' = [reads EXCEPT ![i] = @ \cup {ReadOf("cloned_emotion", output_path)}]
    /\ pc' = [pc EXCEPT ![i] = "Similarity"]
    /\ UNCHANGED <<args, ref_paths, emotion_options, final_emotion, ret, fs>>

\* return (output_path, evaluate_similarity(ref_paths[0], output_path), verdict)
ReturnResult(i) ==
    /\ pc[i] = "Similarity"
    /\ \E r \in EvaluateSimilarityResults :
        /\ ret' = [ret EXCEPT ![i] =
               [path |-> output_path, similarity |-> r.score,
                verdict |-> FormatVerdict(final_emotion[i], cloned_emotion[i])]]
        /\ outcome' = [outcome EXCEPT ![i].sim = r.st]
    /\ calls' = [calls EXCEPT ![i].encoder = @ + 1]
    /\ reads' = [reads EXCEPT ![i] =
           @ \cup {ReadOf("similarity", ref_paths[i][1]), ReadOf("similarity", output_path)}]
    /\ pc' = [pc EXCEPT ![i] = "done"]
    /\ UNCHANGED <<args, locals, fs>>

\* mutant: the handler returns output_path instead of error_path
HandleErrorReturnsOutput(i) ==
    /\ pc[i] = "except"
    /\ fs' = [fs EXCEPT ![error_path] = [owner |-> i, src |-> "silent"]]
    /\ ret' = [ret EXCEPT ![i] =
           [path |-> output_path, similarity |-> 0, verdict |-> "Error"]]
    /\ pc' = [pc EXCEPT ![i] = "done"]
    /\ UNCHANGED <<args, locals, calls, outcome, reads>>

\* mutant: the handler returns the triple without exporting the placeholder
HandleErrorNoPlaceholder(i) ==
    /\ pc[i] = "except"
    /\ ret' = [ret EXCEPT ![i] =
           [path |-> error_path, similarity |-> 0, verdict |-> "Error"]]
    /\ pc' = [pc EXCEPT ![i] = "done"]
    /\ UNCHANGED <<args, locals, calls, outcome, reads, fs>>

\* except Exception: export one second of silence to error.wav,
\* return error_path, 0.0, "Error"
HandleError(i) ==
    /\ pc[i] = "except"
    /\ fs' = [fs EXCEPT ![error_path] = [owner |-> i, src |-> "silent"]]
    /\ ret' = [ret EXCEPT ![i] =
           [path |-> error_path, similarity |-> 0, verdict |-> "Error"]]
    /\ pc' = [pc EXCEPT ![i] = "done"]
    /\ UNCHANGED <<args, locals, calls, outcome, reads>>

Next ==
    \E i \in Callers :
        \/ Enter(i)
        \/ NormalizeRef(i)
        \/ CheckRefs(i)
        \/ BuildEmotionOptions(i)
        \/ ResolveEmotion(i)
        \/ Synthesize(i)
        \/ ValidateEmotion(i)
        \/ ReturnResult(i)
        \/ HandleError(i)

Spec == Init /\ [][Next]_vars

\* a model call that never returns: classifier(...), encoder.embed_utterance(...)
\* and tts.tts_to_file(...) are plain blocking calls, with no timeout around
\* them, so the caller stays inside the call
Hang(i) ==
    /\ \/ pc[i] = "EmotionOptions" /\ ref_paths[i] # <<>>
       \/ pc[i] = "Resolve" /\ target_emotion[i] = ""
       \/ pc[i] \in {"Synthesizing", "Validating", "Similarity"}
    /\ pc' = [pc EXCEPT ![i] = "hung"]
    /\ UNCHANGED <<args, locals, ret, calls, outcome, reads, fs>>

NextHang == Next \/ \E i \in Callers : Hang(i)

\* one call of clone_voice whose model calls may hang; the interpreter keeps
\* running every step that can run
SpecHang == Init /\ [][NextHang]_vars /\ WF_vars(NextHang)

\* two concurrent calls of clone_voice with different uploads and texts
InitConc ==
    /\ pc = [i \in Callers |-> "Received"]
    /\ text = [i \in Callers |-> i]
    /\ audio_paths = [i \in Callers |->
           IF i = 1 THEN <<UploadPath(i, 1), NoPath, NoPath>>
                    ELSE <<UploadPath(i, 1), NoPath, UploadPath(i, 3)>>]
    /\ target_emotion = [i \in Callers |-> IF i = 1 THEN "happy" ELSE "SAD"]
    /\ InitLocals

SpecConc == InitConc /\ [][Next]_vars
(***************************************************************************)
(* Properties                                                              *)
(***************************************************************************)
Sentinel == [path |-> error_path, similarity |-> 0, verdict |-> "Error"]
SynthesisRaised(i) == outcome[i].tts \in {"raise", "raise_partial"}
Returned(i) == pc[i] = "done"
Succeeded(i) == Returned(i) /\ ret[i].path = output_path
\* final_emotion has been assigned: the value the synthesizer is given
Resolved(i) == final_emotion[i] # "unset"

\* C1: in every run in which the cloning model's call raised, the run is in
\* the except handler or has returned; when it has returned, the triple is
\* exactly (error_path, 0.0, "Error"), and the path is never output_path.
C1_SynthesisFailureReturnsSentinel ==
    \A i \in Callers :
        SynthesisRaised(i) =>
            /\ pc[i] \in {"except", "done"}
            /\ ret[i].path # output_path
            /\ Returned(i) => ret[i] = Sentinel

C1_Witness ==
    /\ SynthesisRaised(1)
    /\ Len(ref_paths[1]) >= 1
    /\ Returned(1)
    /\ ret[1] = Sentinel

\* C2: a run called with no reference file never invokes the text-emotion
\* classifier, the audio-emotion classifier, the speaker encoder or the
\* cloning model, never gets past the check of ref_paths, and returns the
\* "Error" result.
NoReferences(i) == \A k \in 1..MaxRefs : audio_paths[i][k] = NoPath

C2_NoReferenceNoModelCall ==
    \A i \in Callers :
        (NoReferences(i) /\ pc[i] # "idle") =>
            /\ calls[i].text = 0
            /\ calls[i].audio = 0
            /\ calls[i].encoder = 0
            /\ calls[i].tts = 0
            /\ pc[i] \in {"Received", "Normalizing", "except", "done"}
            /\ Returned(i) => ret[i].verdict = "Error"

C2_Witness ==
    /\ NoReferences(1)
    /\ outcome[1].precondition = "raise"
    /\ Returned(1)
    /\ calls[1] = NoCalls

\* C3: when target_emotion is a case-variant of a taxonomy label, the emotion
\* given to the synthesizer is that label in lower case, whatever the text and
\* whatever the classifiers returned.
CaseVariants ==
    {<<"happy", "happy">>, <<"neutral", "neutral">>, <<"Angry", "angry">>, <<"SAD", "sad">>}

C3_OverrideWins ==
    \A i \in Callers : \A v \in CaseVariants :
        (target_emotion[i] = v[1] /\ Resolved(i)) => final_emotion[i] = v[2]

C3_Witness ==
    /\ target_emotion[1] = "Angry"
    /\ outcome[1].ref = "sad"
    /\ outcome[1].tts = "ok"
    /\ final_emotion[1] = "angry"

\* C4: in auto mode (target_emotion = "") the emotion given to the
\* synthesizer is the text classifier's label mapped joy->happy,
\* sadness->sad, anger->angry, neutral->neutral, anything else->neutral, and
\* "neutral" when the text classifier raised; after the text classification
\* the run is at the synthesis step, not in the failure handler.
TextLabelToTaxonomy(raw) ==
    IF raw = "joy" THEN "happy"
    ELSE IF raw = "sadness" THEN "sad"
    ELSE IF raw = "anger" THEN "angry"
    ELSE "neutral"

C4_AutoModeTextMapping ==
    \A i \in Callers :
        (target_emotion[i] = "" /\ outcome[i].text # "-") =>
            /\ final_emotion[i] = TextLabelToTaxonomy(outcome[i].text)
            /\ calls[i].tts = 0 => pc[i] = "Synthesizing"

C4_Witness ==
    /\ target_emotion[1] = ""
    /\ outcome[1].text = "raise"
    /\ final_emotion[1] = "neutral"
    /\ outcome[1].tts = "ok"

\* C5: in every run that returned the synthesis output, with r the resolved
\* emotion and d the label detected on the output, the verdict is "r (mark)"
\* with the check mark when d = r and "r (mark Got d)" with the cross mark when
\* d # r; the check mark appears exactly when d = r.
DetectedOnOutput(i) == IF outcome[i].out = "raise" THEN "neutral" ELSE outcome[i].out
MatchVerdicts == {r \o " (" \o CheckMark \o ")" : r \in Taxonomy}

C5_VerdictFormat ==
    \A i \in Callers :
        Succeeded(i) =>
            LET r == final_emotion[i]
                d == DetectedOnOutput(i)
            IN /\ d = r => ret[i].verdict = r \o " (" \o CheckMark \o ")"
               /\ d # r => ret[i].verdict = r \o " (" \o CrossMark \o " Got " \o d \o ")"
               /\ ret[i].verdict \in MatchVerdicts <=> d = r

C5_Witness ==
    /\ Succeeded(1)
    /\ outcome[1].out = "sad"
    /\ final_emotion[1] = "sad"
    /\ ret[1].verdict = "sad ([U+2714])"

\* C6: the label detected on the synthesized waveform, which is compared with
\* the resolved emotion and printed in the verdict, is always one of happy,
\* sad, angry, neutral.
C6_DetectedLabelInTaxonomy ==
    \A i \in Callers :
        cloned_emotion[i] # "unset" => cloned_emotion[i] \in Taxonomy

\* C7: every temp file a run reads (to seed the emotion options, to
\* synthesize, to validate) was written by that run, and the file a run has
\* returned is one it wrote.
C7_InvocationsIndependent ==
    \A i \in Callers :
        /\ \A rd \in reads[i] : rd.owner = i
        /\ Returned(i) => fs[ret[i].path].owner = i

\* C8: the similarity of every returned triple of a run with 1 to 3
\* references lies in [0, 1].
C8_SimilarityInUnitInterval ==
    \A i \in Callers :
        (Returned(i) /\ ~NoReferences(i)) =>
            (0 <= ret[i].similarity /\ ret[i].similarity <= CosScale)

\* C9: once the cloning model has succeeded the run never enters the failure
\* handler; a failed audio-emotion detection on the output gives the detected
\* emotion "neutral", a failed similarity computation gives similarity 0.0,
\* and the run returns output_path with a verdict other than "Error".
C9_ValidationFailureAbsorbed ==
    \A i \in Callers :
        outcome[i].tts = "ok" =>
            /\ pc[i] \in {"Validating", "Similarity", "done"}
            /\ outcome[i].out = "raise" => cloned_emotion[i] = "neutral"
            /\ Returned(i) =>
                /\ ret[i].path = output_path
                /\ ret[i].verdict # "Error"
                /\ outcome[i].sim = "raise" => ret[i].similarity = 0

C9_Witness ==
    /\ Returned(1)
    /\ outcome[1].out = "raise"
    /\ outcome[1].sim = "raise"
    /\ ret[1].path = output_path
    /\ ret[1].similarity = 0

\* The pipeline stage a run is in
Stage(i) ==
    CASE pc[i] \in {"idle", "Received"} -> "Received"
      [] pc[i] = "Normalizing" -> "Normalizing"
      [] pc[i] \in {"EmotionOptions", "Resolve"} -> "EmotionResolving"
      [] pc[i] = "Synthesizing" -> "Synthesizing"
      [] pc[i] \in {"Validating", "Similarity"} -> "Validating"
      [] pc[i] = "except" -> "Failed"
      [] pc[i] = "done" -> IF ret[i].path = output_path THEN "Completed" ELSE "Failed"
      [] OTHER -> "Unknown"

StageOrder ==
    {<<"Received", "Normalizing">>, <<"Normalizing", "EmotionResolving">>,
     <<"EmotionResolving", "Synthesizing">>, <<"Synthesizing", "Validating">>,
     <<"Validating", "Completed">>}
        \cup {<<st, "Failed">> : st \in {"Received", "Normalizing", "EmotionResolving",
                                      "Synthesizing", "Validating"}}

ValidatorReads(i) == {rd \in reads[i] : rd.step \in {"cloned_emotion", "similarity"}}

\* C10: every step of a run keeps its stage or moves it along Received,
\* Normalizing, EmotionResolving, Synthesizing, Validating, Completed, or to
\* Failed; the cloning model is invoked only in Synthesizing, with every
\* supplied reference normalized and the emotion resolved; the validators run
\* only in Validating, after the cloning model succeeded; and in Failed the
\* run stays Failed and invokes no model.
C10_StageOrder ==
    [][\A i \in Callers :
         /\ Stage(i)' # Stage(i) => <<Stage(i), Stage(i)'>> \in StageOrder
         /\ calls'[i].tts # calls[i].tts =>
              /\ Stage(i) = "Synthesizing"
              /\ Len(ref_paths[i]) = Len(Supplied(audio_paths[i]))
              /\ final_emotion[i] \in Taxonomy
         /\ (ValidatorReads(i)' # ValidatorReads(i) \/ calls'[i].encoder # calls[i].encoder) =>
              /\ Stage(i) = "Validating"
              /\ outcome[i].tts = "ok"
         /\ Stage(i) = "Failed" => (Stage(i)' = "Failed" /\ calls'[i] = calls[i])
      ]_vars

C10_Witness ==
    /\ Stage(1) = "Completed"
    /\ calls[1].tts = 1
    /\ calls[1].encoder = 1
    /\ Len(ref_paths[1]) = MaxRefs
\* C11: whatever target_emotion is (empty, a taxonomy label in any case, or
\* any other string) and whatever the two classifiers did, the emotion given
\* to the synthesizer is one of happy, sad, angry, neutral, and a run in the
\* failure handler got there from decoding, from the reference check or from
\* the cloning model, never from resolving the emotion.
C11_ResolutionAlwaysSucceeds ==
    \A i \in Callers :
        /\ Resolved(i) => final_emotion[i] \in Taxonomy
        /\ outcome[i].ref # "-" =>
              (pc[i] \in {"Resolve", "Synthesizing"} \/ outcome[i].tts # "-")
        /\ pc[i] = "except" =>
              \/ outcome[i].decode = "raise"
              \/ outcome[i].precondition = "raise"
              \/ SynthesisRaised(i)

C11_Witness ==
    /\ target_emotion[1] = "excited"
    /\ outcome[1].ref = "raise"
    /\ final_emotion[1] = "neutral"
    /\ outcome[1].tts = "ok"

\* C12: the emotion given to the synthesizer is determined by target_emotion
\* and the text classifier's result alone: two runs that agree on both get
\* the same emotion whatever the audio classifier returned for the reference.
ResolvedFrom(target, textRaw) ==
    IF target = "" THEN TextLabelToTaxonomy(textRaw)
    ELSE IF \E v \in CaseVariants : v[1] = target
         THEN (CHOOSE v \in CaseVariants : v[1] = target)[2]
         ELSE "neutral"

C12_ReferenceEmotionNotUsed ==
    \A i \in Callers :
        Resolved(i) =>
            final_emotion[i] = ResolvedFrom(target_emotion[i], outcome[i].text)

C12_Witness ==
    /\ target_emotion[1] = ""
    /\ outcome[1].ref = "sad"
    /\ outcome[1].text = "joy"
    /\ final_emotion[1] = "happy"
    /\ outcome[1].tts = "ok"
\* C13 as stated: a run called with no reference file never writes the silent
\* placeholder file.
C13_NoPlaceholderOnPreconditionFailure ==
    \A i \in Callers :
        NoReferences(i) => fs[error_path].owner # i

\* C13 as amended: a run called with no reference file fails in the same
\* handler as every other failure: the step that returns writes the silent
\* placeholder error.wav and returns (error_path, 0.0, "Error"), and that step
\* writes no other temp file.
C13_PreconditionFailureWritesPlaceholder ==
    [][\A i \in Callers :
         (NoReferences(i) /\ pc[i] # "done" /\ pc'[i] = "done") =>
            /\ outcome[i].precondition = "raise"
            /\ fs'[error_path] = [owner |-> i, src |-> "silent"]
            /\ \A f \in TempFiles \ {error_path} : fs'[f] = fs[f]
            /\ ret'[i] = Sentinel
      ]_vars

C13_Witness ==
    /\ NoReferences(1)
    /\ outcome[1].precondition = "raise"
    /\ Returned(1)
    /\ fs[error_path] = [owner |-> 1, src |-> "silent"]
    /\ ret[1] = Sentinel
\* C14: each loop iteration normalizes the next supplied file, in input
\* order, into the next processed path; the cloning model is invoked only
\* when every supplied file was decoded, and a run in which a decode failed
\* returns the "Error" triple; the similarity is computed against the
\* normalized form of the run's own first supplied reference.
C14_NormalizeAllThenCompareWithFirst ==
    [][\A i \in Callers :
         /\ Len(ref_paths'[i]) = Len(ref_paths[i]) + 1 =>
              LET k == Len(ref_paths[i])
              IN /\ ref_paths'[i][k + 1] = ProcessedPath(k)
                 /\ fs'[ProcessedPath(k)] =
                        [owner |-> i, src |-> Supplied(audio_paths[i])[k + 1]]
         /\ calls'[i].tts # calls[i].tts =>
              /\ outcome[i].decode # "raise"
              /\ Len(ref_paths[i]) = Len(Supplied(audio_paths[i]))
         /\ (outcome[i].decode = "raise" /\ pc[i] # "done" /\ pc'[i] = "done") =>
              (ret'[i] = Sentinel /\ calls'[i].tts = 0)
         /\ \A rd \in reads'[i] \ reads[i] :
              (rd.step = "similarity" /\ rd.file # output_path) =>
                  /\ rd.file = ProcessedPath(0)
                  /\ rd.owner = i
                  /\ rd.src = Supplied(audio_paths[i])[1]
      ]_vars
\* C15: when a run has returned, none of the normalized reference files it
\* created exists any more, and when it returned the "Error" triple neither
\* does an output waveform it wrote.
C15_TransientFilesCleanedUp ==
    \A i \in Callers :
        Returned(i) =>
            /\ \A k \in 1..Len(ref_paths[i]) : fs[ref_paths[i][k]].owner # i
            /\ ret[i].verdict = "Error" => fs[output_path].owner # i
\* C16: a run whose model call never returns still terminates, with the
\* "Error" triple.
C16_HungCallStillReturns ==
    \A i \in Callers :
        (pc[i] = "hung") ~> (Returned(i) /\ ret[i] = Sentinel)
\* C17: in every returned triple the verdict is "Error" exactly when the path
\* is the placeholder error.wav; with the verdict "Error" the similarity is
\* 0.0; and with the path output.wav the verdict is the resolved taxonomy
\* label followed by " (mark)" or " (mark Got d)".
VerdictsBeginningWith(r) ==
    {r \o " (" \o CheckMark \o ")"}
        \cup {r \o " (" \o CrossMark \o " Got " \o d \o ")" : d \in AudioRawLabels \cup Taxonomy}

C17_TripleNeverMixed ==
    \A i \in Callers :
        Returned(i) =>
            /\ ret[i].path \in {output_path, error_path}
            /\ ret[i].verdict = "Error" <=> ret[i].path = error_path
            /\ ret[i].verdict = "Error" => ret[i].similarity = 0
            /\ ret[i].path = output_path =>
                  /\ final_emotion[i] \in Taxonomy
                  /\ ret[i].verdict \in VerdictsBeginningWith(final_emotion[i])

C17_Witness ==
    /\ Returned(1)
    /\ ret[1].path = output_path
    /\ final_emotion[1] = "angry"
    /\ ret[1].verdict = "angry ([U+2716] Got hap)"
    /\ ret[1].similarity = -3
\* C18: in a run with a non-empty target_emotion the text-emotion classifier
\* is never invoked; when the value is not a case-variant of a taxonomy label
\* the emotion given to the synthesizer is "neutral", and the run goes on to
\* the synthesis step.
IsCaseVariant(t) == \E v \in CaseVariants : v[1] = t

C18_NonEmptyTargetSkipsTextClassifier ==
    \A i \in Callers :
        target_emotion[i] # "" =>
            /\ calls[i].text = 0
            /\ outcome[i].text = "-"
            /\ (~IsCaseVariant(target_emotion[i]) /\ Resolved(i)) =>
                  /\ final_emotion[i] = "neutral"
                  /\ calls[i].tts = 0 => pc[i] = "Synthesizing"

C18_Witness ==
    /\ target_emotion[1] = "excited"
    /\ final_emotion[1] = "neutral"
    /\ calls[1].text = 0
    /\ calls[1].tts = 1
    /\ Succeeded(1)
\* a run that passed the check of ref_paths and is past the building of
\* emotion_options
PastEmotionOptions(i) == outcome[i].precondition = "ok" /\ pc[i] # "EmotionOptions"
ReferenceEmotionReads(i) ==
    {rd \in reads[i] : rd.step = "ref_emotion" /\ rd.file = ProcessedPath(0)}

\* C19 as stated: in every run that passed the precondition the audio-emotion
\* classifier has been invoked on the first normalized reference before the
\* synthesis step, whatever target_emotion is, and a failure of the call left
\* "neutral" without sending the run to the failure handler.
C19_AudioClassifierInvokedOnReference ==
    \A i \in Callers :
        (PastEmotionOptions(i) /\ calls[i].tts = 0) =>
            /\ ReferenceEmotionReads(i) # {}
            /\ calls[i].audio = 1
            /\ outcome[i].ref = "raise" => emotion_options[i] = "neutral"
            /\ pc[i] \in {"Resolve", "Synthesizing"}

\* C19 as amended: in every run that passed the precondition extract_emotion
\* has been run on the first normalized reference before the synthesis step,
\* whatever target_emotion is; the classifier itself was invoked in it unless
\* the call failed before reaching it; a failure left "neutral", did not send
\* the run to the failure handler and did not change the resolved emotion.
C19_ReferenceEmotionDetectedBeforeSynthesis ==
    \A i \in Callers :
        /\ (PastEmotionOptions(i) /\ calls[i].tts = 0) =>
              /\ ReferenceEmotionReads(i) # {}
              /\ outcome[i].ref # "-"
              /\ calls[i].audio \in {0, 1}
              /\ outcome[i].ref # "raise" => calls[i].audio = 1
              /\ outcome[i].ref = "raise" => emotion_options[i] = "neutral"
              /\ pc[i] \in {"Resolve", "Synthesizing"}
        /\ (PastEmotionOptions(i) /\ Resolved(i)) =>
              final_emotion[i] = ResolvedFrom(target_emotion[i], outcome[i].text)

C19_Witness ==
    /\ target_emotion[1] = "happy"
    /\ outcome[1].ref = "raise"
    /\ calls[1].audio = 0
    /\ emotion_options[1] = "neutral"
    /\ final_emotion[1] = "happy"
    /\ outcome[1].tts = "ok"
====
